---- MODULE Spec2Model ----
\* Session lifecycle of the Coinbase embedded-wallet front end:
\* WalletInfo (provider sign-in -> getAccessToken -> verifyCoinbaseToken ->
\* localStorage), handleLogout, and the backend clients that read the stored
\* token (AuthService, DepositService).
EXTENDS Integers, Sequences, FiniteSets, TLC

\* ---------------------------------------------------------------- bounds
\* Runs of the authenticate effect with isSignedIn = true (each one calls
\* getAccessToken once and starts at most one exchange).
MaxRuns == 2

\* Sends started in the send modal.
MaxSends == 2

\* Largest value of WalletInfo's balanceRefreshKey.
MaxRefreshKey == 2

\* Balance fetches started by WalletBalance.
MaxFetches == 2

\* Transactions in one page of the backend's transaction history.
MaxTxs == 2
MaxCdpCalls == 2

\* ---------------------------------------------------------------- values
\* JavaScript null; `Bearer ${null}` renders it as the text "null".
NULL == "null"

\* JavaScript undefined, the value of a property that is not there.
UNDEFINED == "undefined"

\* useState<BackendAuthResponse | null>(null)
NullAuth == [isNull |-> TRUE]

\* Tokens the provider's getAccessToken can hand out.
ProviderTokens == {"pt-1", "pt-2"}

\* BackendAuthResponse values the backend can issue (types/auth.ts); the user
\* object is carried along unchanged and plays no part in the lifecycle.
BackendSessions ==
    { [accessToken |-> "bt-1", refreshToken |-> "rt-1"],
      [accessToken |-> "bt-2", refreshToken |-> "rt-2"] }

\* localStorage restricted to backend_access_token / backend_refresh_token.
EmptyStore == [backend_access_token |-> NULL, backend_refresh_token |-> NULL]

\* Response bodies: text that is not JSON, the JSON text null, {},
\* {"message": m}, {"data": s}.
BodyUnparsable == [json |-> FALSE]
BodyNull == [json |-> TRUE, hasMessage |-> FALSE, hasData |-> FALSE, literal |-> "null"]
BodyEmpty == [json |-> TRUE, hasMessage |-> FALSE, hasData |-> FALSE]
BodyMessage(m) == [json |-> TRUE, hasMessage |-> TRUE, message |-> m, hasData |-> FALSE]
BodyData(s) == [json |-> TRUE, hasMessage |-> FALSE, hasData |-> TRUE, data |-> s]

ErrorBodies == {BodyUnparsable, BodyEmpty, BodyMessage(""), BodyMessage("invalid token")}

\* What fetch() can settle with for POST /v1/coinbase/verify: a rejected
\* promise (transport failure), a non-2xx response with any body, or a 2xx
\* response whose body is {"data": BackendAuthResponse} or is cut short.
VerifyResponses ==
    { [net |-> FALSE] }
    \cup { [net |-> TRUE, status |-> st, body |-> b] : st \in {401}, b \in ErrorBodies }
    \cup { [net |-> TRUE, status |-> 200, body |-> BodyData(s)] : s \in BackendSessions }
    \cup { [net |-> TRUE, status |-> 200, body |-> BodyUnparsable] }

\* response.ok
ResponseOk(resp) == resp.status >= 200 /\ resp.status <= 299

StatusText(st) ==
    CASE st = 200 -> "200"
      [] st = 201 -> "201"
      [] st = 400 -> "400"
      [] st = 401 -> "401"
      [] st = 403 -> "403"
      [] st = 500 -> "500"

\* Reading property `name` of null throws a TypeError with this message.
NullPropertyMessage(name) ==
    "Cannot read properties of null (reading '" \o name \o "')"

\* AuthService.verifyCoinbaseToken, from the settled fetch to its own
\* settlement: [ok |-> TRUE, value] or [ok |-> FALSE, isError, message].
verifyCoinbaseToken(resp) ==
    IF ~resp.net
    THEN [ok |-> FALSE, isError |-> TRUE, message |-> "Failed to fetch"]
    ELSE IF ~ResponseOk(resp)
    THEN LET errorData == IF resp.body.json THEN resp.body ELSE BodyEmpty
             m == IF errorData = BodyNull
                  THEN NullPropertyMessage("message")
                  ELSE IF errorData.hasMessage /\ errorData.message # ""
                  THEN errorData.message
                  ELSE "HTTP error! status: " \o StatusText(resp.status)
         IN [ok |-> FALSE, isError |-> TRUE, message |-> m]
    ELSE IF ~resp.body.json
    THEN [ok |-> FALSE, isError |-> TRUE, message |-> "Unexpected end of JSON input"]
    ELSE IF resp.body = BodyNull
    THEN [ok |-> FALSE, isError |-> TRUE, message |-> NullPropertyMessage("data")]
    ELSE [ok |-> TRUE, value |-> IF resp.body.hasData THEN resp.body.data ELSE UNDEFINED]

\* The two SendTransactionModal implementations of the repository: the one
\* built on useSendUserOperation and the validate-then-sign one.
Variants == {"userOp", "signButton"}

\* Transaction hashes: none yet, and the hash of the n-th send.
NoHash == <<>>
TxHash(n) == <<n>>

\* ui while the signed-in view is not rendered (`if (!isSignedIn) return`).
Unmounted == "unmounted"

\* Contents of the recipient input: empty or an address of 42 characters.
FormRecipients ==
    {"", "0x1111111111111111111111111111111111111111",
     "0x2222222222222222222222222222222222222222"}

\* Contents of the amount input: empty or a positive number.
FormAmounts == {"", "1"}

\* useState<any>(null) of transaction, and no handleValidate in flight.
NoTransaction == [isNull |-> TRUE]
NoValidation == [isNull |-> TRUE]

\* State of the signed-in view right after it is mounted:
\*   isSendModalOpen, balanceRefreshKey      WalletInfo useState
\*   status, hash                            useSendUserOperation status / data
\*                                           (userOp); success / transactionHash
\*                                           (signButton)
\*   validating, validated                   signButton useState; validating
\*                                           stands for the pending handleValidate
\*   timer                                   the 5 s setTimeout is pending
\*   fetchedKey, fetches                     history: balanceRefreshKey at the
\*                                           latest fetchBalances, fetches started
\*   sends, sent, recorded                   history: sends started, hashes of
\*                                           succeeded sends, hashes passed to
\*                                           recordWithdrawTransaction
\*   closedBy                                history: who called onClose last
\*   recipient, amount, formError           the form: recipientAddress, amount
\*                                           and error (formError in userOp)
\*   transaction                             signButton: the prepared transaction,
\*                                           by the recipient and amount it encodes
\*   validation                              history: the handleValidate call in
\*                                           flight, by the recipient and amount
\*                                           its closure holds
UiInit(v) ==
    [variant |-> v, isSendModalOpen |-> FALSE, balanceRefreshKey |-> 0,
     status |-> "idle", hash |-> NoHash, validating |-> FALSE, validated |-> FALSE,
     timer |-> FALSE, fetchedKey |-> 0, fetches |-> 1,
     sends |-> 0, sent |-> {}, recorded |-> {}, closedBy |-> NULL,
     recipient |-> "", amount |-> "", formError |-> NULL,
     transaction |-> NoTransaction, validation |-> NoValidation]

\* ---------------------------------------------------------------- state
VARIABLES
    isSignedIn,     \* useIsSignedIn().isSignedIn
    pendingTokens,  \* getAccessToken() calls not yet settled: [run, tr]
    inflight,       \* verifyCoinbaseToken calls not yet settled:
                    \* [id, tr, token] and, as history, the store at the call
                    \* (before) and whether a sign-out came since (signedOut)
    backendAuth,    \* useState: BackendAuthResponse | null
    loading,        \* useState: boolean
    error,          \* useState: string | null
    store,          \* localStorage
    runs,           \* history: runs of the effect with isSignedIn = true
    signIns,        \* history: false -> true transitions of isSignedIn
    resolved,       \* history: settled exchanges in settlement order
    logoutAt,       \* history: Len(resolved) at the latest handleLogout, -1 if none
    ev,             \* history: the step just taken
    ui              \* the components of the signed-in view, as one record:
                    \* the send modal, WalletInfo's state around it and
                    \* WalletBalance (see UiInit), or TransactionHistory
                    \* (see HistoryInit)

vars == <<isSignedIn, pendingTokens, inflight, backendAuth, loading, error,
          store, runs, signIns, resolved, logoutAt, ev, ui>>

Init ==
    /\ isSignedIn = FALSE
    /\ pendingTokens = {}
    /\ inflight = {}
    /\ backendAuth = NullAuth
    /\ loading = FALSE
    /\ error = NULL
    /\ store = EmptyStore
    /\ runs = 0
    /\ signIns = 0
    /\ resolved = <<>>
    /\ logoutAt = -1
    /\ ev = [op |-> "Init"]
    /\ ui = Unmounted


\* ---------------------------------------------------------------- helpers
Last(seq) == seq[Len(seq)]

\* Exchanges started so far; the next one gets the next number.
Started == Cardinality(inflight) + Len(resolved)

\* Variant: the `if (token)` test is missing.
TokenTruthy_Always(token) == TRUE

\* `if (token)`: null, undefined and "" are falsy.
TokenTruthy(token) == token # NULL /\ token # ""

\* What getAccessToken() can settle with: a token, no token, or a rejection.
TokenResults ==
    { [rejected |-> FALSE, token |-> t] : t \in ProviderTokens \cup {NULL, ""} }
    \cup { [rejected |-> TRUE, token |-> NULL] }

\* Variant: the second setItem is missing.
setItems_AccessOnly(st, response) ==
    [st EXCEPT !.backend_access_token = response.accessToken]

\* localStorage.setItem x2 after a successful exchange.
setItems(st, response) ==
    [st EXCEPT !.backend_access_token = response.accessToken,
               !.backend_refresh_token = response.refreshToken]

\* Variant: only the refresh token is removed.
removeItems_RefreshOnly(st) ==
    [st EXCEPT !.backend_refresh_token = NULL]

\* localStorage.removeItem x2.
removeItems(st) ==
    [st EXCEPT !.backend_access_token = NULL, !.backend_refresh_token = NULL]

\* err instanceof Error ? err.message : 'Authentication failed'
errorMessage(thrown) ==
    IF thrown.isError THEN thrown.message ELSE "Authentication failed"

\* ---------------------------------------------------------------- effect
\* Variant: the exchange is issued at once, without awaiting getAccessToken().
authenticate_then_NoAwait(tr) ==
    /\ runs' = runs + 1
    /\ loading' = TRUE
    /\ error' = NULL
    /\ inflight' = inflight \cup {[id |-> Started + 1, tr |-> tr, token |-> "pt-1",
                                    before |-> store, signedOut |-> FALSE]}
    /\ UNCHANGED <<pendingTokens, backendAuth, store>>

\* authenticate(), isSignedIn true: `await getAccessToken()` is issued.
authenticate_then(tr) ==
    /\ runs' = runs + 1
    /\ pendingTokens' = pendingTokens \cup {[run |-> runs + 1, tr |-> tr]}
    /\ UNCHANGED <<inflight, backendAuth, loading, error, store>>

\* Variant: the signed-out branch also clears localStorage.
authenticate_else_RemovesItems ==
    /\ backendAuth' = NullAuth
    /\ error' = NULL
    /\ store' = EmptyStore
    /\ UNCHANGED <<pendingTokens, loading, runs>>

\* authenticate(), isSignedIn false: in-memory session and error are dropped.
authenticate_else ==
    /\ backendAuth' = NullAuth
    /\ error' = NULL
    /\ UNCHANGED <<pendingTokens, loading, store, runs>>

\* The provider reports signed-in: the effect re-runs with isSignedIn = true.
SignIn ==
    /\ ~isSignedIn
    /\ runs < MaxRuns
    /\ isSignedIn' = TRUE
    /\ signIns' = signIns + 1
    /\ authenticate_then(signIns + 1)
    /\ ev' = [op |-> "SignIn", tr |-> signIns + 1]
    /\ UNCHANGED <<ui, resolved, logoutAt>>

\* Variant: signing out aborts the exchanges in flight.
SignOut_Aborts ==
    /\ isSignedIn
    /\ isSignedIn' = FALSE
    /\ authenticate_else
    /\ inflight' = {}
    /\ ev' = [op |-> "SignOut"]
    /\ UNCHANGED <<ui, signIns, resolved, logoutAt>>

\* The provider reports signed-out: the effect re-runs with isSignedIn = false.
SignOut ==
    /\ isSignedIn
    /\ isSignedIn' = FALSE
    /\ authenticate_else
    /\ inflight' = {[e EXCEPT !.signedOut = TRUE] : e \in inflight}
    /\ ev' = [op |-> "SignOut"]
    /\ UNCHANGED <<ui, signIns, resolved, logoutAt>>

\* useGetAccessToken() hands back a new function while signed in: the
\* dependency array [isSignedIn, getAccessToken] re-runs the effect.
AccessorChangedSignedIn ==
    /\ isSignedIn
    /\ runs < MaxRuns
    /\ authenticate_then(signIns)
    /\ ev' = [op |-> "AccessorChanged", tr |-> signIns]
    /\ UNCHANGED <<ui, isSignedIn, signIns, resolved, logoutAt>>

\* The same while signed out.
AccessorChangedSignedOut ==
    /\ ~isSignedIn
    /\ authenticate_else
    /\ ev' = [op |-> "AccessorChanged", tr |-> 0]
    /\ UNCHANGED <<ui, isSignedIn, inflight, signIns, resolved, logoutAt>>

\* Variant: setError(null) is missing at the start of an exchange.
authenticateWithBackend_start_KeepsError(p, token) ==
    /\ loading' = TRUE
    /\ inflight' = inflight \cup {[id |-> Started + 1, tr |-> p.tr, token |-> token,
                                    before |-> store, signedOut |-> FALSE]}
    /\ UNCHANGED <<backendAuth, error, store>>

\* authenticateWithBackend(token) up to its await: the exchange is issued.
authenticateWithBackend_start(p, token) ==
    /\ loading' = TRUE
    /\ error' = NULL
    /\ inflight' = inflight \cup {[id |-> Started + 1, tr |-> p.tr, token |-> token,
                                    before |-> store, signedOut |-> FALSE]}
    /\ UNCHANGED <<backendAuth, store>>

\* `await getAccessToken()` settles and authenticate() continues.
TokenSettled(p, res) ==
    /\ p \in pendingTokens
    /\ pendingTokens' = pendingTokens \ {p}
    /\ IF ~res.rejected /\ TokenTruthy(res.token)
       THEN authenticateWithBackend_start(p, res.token)
       ELSE UNCHANGED <<inflight, backendAuth, loading, error, store>>
    /\ ev' = [op |-> "TokenSettled", tr |-> p.tr, rejected |-> res.rejected,
              token |-> res.token]
    /\ UNCHANGED <<ui, isSignedIn, runs, signIns, resolved, logoutAt>>

\* Variant: a session already in localStorage is not overwritten.
applySuccess_KeepsExisting(e, response) ==
    /\ backendAuth' = response
    /\ store' = IF store = EmptyStore THEN setItems(store, response) ELSE store
    /\ UNCHANGED error

\* Variant: a result is applied only when no later exchange has been started.
applySuccess_LatestStartedOnly(e, response) ==
    /\ IF e.id = Started
       THEN backendAuth' = response /\ store' = setItems(store, response)
       ELSE UNCHANGED <<backendAuth, store>>
    /\ UNCHANGED error

\* try-branch after the await: setBackendAuth + localStorage.setItem x2.
applySuccess(e, response) ==
    /\ backendAuth' = response
    /\ store' = setItems(store, response)
    /\ UNCHANGED error

\* Variant: the catch-branch also clears localStorage.
applyFailure_RemovesItems(e, thrown) ==
    /\ error' = errorMessage(thrown)
    /\ store' = EmptyStore
    /\ UNCHANGED backendAuth

\* catch-branch: setError(errorMessage).
applyFailure(e, thrown) ==
    /\ error' = errorMessage(thrown)
    /\ UNCHANGED <<backendAuth, store>>

\* `await authService.verifyCoinbaseToken(token)` resolves.
ExchangeSucceeds(e, resp) ==
    LET r == verifyCoinbaseToken(resp) IN
    /\ e \in inflight
    /\ r.ok
    /\ inflight' = inflight \ {e}
    /\ applySuccess(e, r.value)
    /\ loading' = FALSE
    /\ resolved' = Append(resolved, [id |-> e.id, tr |-> e.tr,
                                     ok |-> TRUE, session |-> r.value])
    /\ ev' = [op |-> "ExchangeSucceeded", id |-> e.id, token |-> e.token,
              signedOut |-> e.signedOut, response |-> r.value]
    /\ UNCHANGED <<ui, isSignedIn, pendingTokens, runs, signIns, logoutAt>>

\* `await authService.verifyCoinbaseToken(token)` rejects.
ExchangeFails(e, resp) ==
    LET r == verifyCoinbaseToken(resp) IN
    /\ e \in inflight
    /\ ~r.ok
    /\ inflight' = inflight \ {e}
    /\ applyFailure(e, r)
    /\ loading' = FALSE
    /\ resolved' = Append(resolved, [id |-> e.id, tr |-> e.tr,
                                     ok |-> FALSE, session |-> NullAuth])
    /\ ev' = [op |-> "ExchangeFailed", id |-> e.id, token |-> e.token,
              before |-> e.before, resp |-> resp, thrown |-> r]
    /\ UNCHANGED <<ui, isSignedIn, pendingTokens, runs, signIns, logoutAt>>

\* Variant: logging out leaves the in-memory session in place.
handleLogout_KeepsSession ==
    /\ isSignedIn
    /\ store' = removeItems(store)
    /\ error' = NULL
    /\ logoutAt' = Len(resolved)
    /\ ev' = [op |-> "Logout"]
    /\ UNCHANGED <<ui, isSignedIn, pendingTokens, inflight, backendAuth, loading, runs,
                   signIns, resolved>>

\* Variant: logging out leaves the displayed error in place.
handleLogout_KeepsError ==
    /\ isSignedIn
    /\ store' = removeItems(store)
    /\ backendAuth' = NullAuth
    /\ logoutAt' = Len(resolved)
    /\ ev' = [op |-> "Logout"]
    /\ UNCHANGED <<ui, isSignedIn, pendingTokens, inflight, loading, error, runs, signIns,
                   resolved>>

\* The Sign Out button of the signed-in view.
handleLogout ==
    /\ isSignedIn
    /\ store' = removeItems(store)
    /\ backendAuth' = NullAuth
    /\ error' = NULL
    /\ logoutAt' = Len(resolved)
    /\ ev' = [op |-> "Logout"]
    /\ UNCHANGED <<ui, isSignedIn, pendingTokens, inflight, loading, runs, signIns, resolved>>

\* ---------------------------------------------------------------- clients
\* AuthService methods that send the stored token as a Bearer credential.
AuthServiceOps ==
    {"getOnrampUrl", "sendTransaction", "recordWithdrawTransaction", "getTransactionHistory"}

\* DepositService methods that do.
DepositServiceOps ==
    {"monitorDepositTransaction", "notifyBackendDeposit", "getDepositHistory"}

MissingCredentialMessage == "Backend token not found. Please authenticate first."

\* AuthService.getBackendToken
getBackendToken(st) == st.backend_access_token

\* Common shape of the four AuthService methods: read the token, throw when
\* there is none, otherwise fetch with `Bearer ${backendToken}`; a non-2xx
\* response throws.
authServiceCall(op, st, httpOk) ==
    LET backendToken == getBackendToken(st) IN
    IF backendToken = NULL
    THEN [op |-> "Request", name |-> op, stored |-> backendToken, fetched |-> FALSE,
          bearer |-> NULL, thrown |-> MissingCredentialMessage]
    ELSE [op |-> "Request", name |-> op, stored |-> backendToken, fetched |-> TRUE,
          bearer |-> backendToken,
          thrown |-> IF httpOk THEN NULL ELSE "Failed: " \o op]

\* Common shape of the three DepositService methods: fetch at once with
\* `Bearer ${localStorage.getItem('backend_access_token')}`; only
\* notifyBackendDeposit rethrows a non-2xx response, the other two return a
\* fallback value.
depositServiceCall(op, st, httpOk) ==
    [op |-> "Request", name |-> op, stored |-> st.backend_access_token, fetched |-> TRUE,
     bearer |-> st.backend_access_token,
     thrown |-> IF ~httpOk /\ op = "notifyBackendDeposit"
                THEN "Failed to notify backend about deposit" ELSE NULL]

AuthServiceRequest(op, httpOk) ==
    /\ ev' = authServiceCall(op, store, httpOk)
    /\ UNCHANGED <<ui, isSignedIn, pendingTokens, inflight, backendAuth, loading, error,
                   store, runs, signIns, resolved, logoutAt>>

DepositServiceRequest(op, httpOk) ==
    /\ ev' = depositServiceCall(op, store, httpOk)
    /\ UNCHANGED <<ui, isSignedIn, pendingTokens, inflight, backendAuth, loading, error,
                   store, runs, signIns, resolved, logoutAt>>

\* Variant: removing a key that is not there throws.
clearTokens_ThrowsWhenEmpty(st) ==
    [store |-> [st EXCEPT !.backend_access_token = NULL, !.backend_refresh_token = NULL],
     threw |-> st.backend_access_token = NULL]

\* AuthService.clearTokens: [store, threw]; removeItem of an absent key is a
\* no-op and never throws.
clearTokens(st) ==
    [store |-> [st EXCEPT !.backend_access_token = NULL, !.backend_refresh_token = NULL],
     threw |-> FALSE]

\* authService.clearTokens(); nth counts the calls made in a row (1, 2, 2, ...).
ClearTokens ==
    LET r == clearTokens(store) IN
    /\ store' = r.store
    /\ ev' = [op |-> "ClearTokens", threw |-> r.threw,
              nth |-> IF ev.op = "ClearTokens" THEN 2 ELSE 1]
    /\ UNCHANGED <<ui, isSignedIn, pendingTokens, inflight, backendAuth, loading, error,
                   runs, signIns, resolved, logoutAt>>

\* What fetch() can settle with for POST /v1/auth/refresh-token.
RefreshResponses ==
    { [net |-> TRUE, status |-> 200, body |-> BodyData([accessToken |-> "bt-2"])],
      [net |-> TRUE, status |-> 401, body |-> BodyMessage("invalid token")] }

\* Variant: the error body is read for a message, as verifyCoinbaseToken does.
refreshToken_ParsesBody(resp) == verifyCoinbaseToken(resp)

\* AuthService.refreshToken, from the settled fetch to its own settlement.
refreshToken(resp) ==
    IF ~resp.net
    THEN [ok |-> FALSE, isError |-> TRUE, message |-> "Failed to fetch"]
    ELSE IF ~ResponseOk(resp)
    THEN [ok |-> FALSE, isError |-> TRUE, message |-> "Failed to refresh token"]
    ELSE IF ~resp.body.json
    THEN [ok |-> FALSE, isError |-> TRUE, message |-> "Unexpected end of JSON input"]
    ELSE IF resp.body = BodyNull
    THEN [ok |-> FALSE, isError |-> TRUE, message |-> NullPropertyMessage("data")]
    ELSE [ok |-> TRUE, value |-> IF resp.body.hasData THEN resp.body.data ELSE UNDEFINED]

\* Variant: the refreshed access token is written to localStorage.
RefreshTokenRequest_Stores(resp) ==
    LET r == refreshToken(resp) IN
    /\ store' = IF r.ok THEN [store EXCEPT !.backend_access_token = r.value.accessToken]
                ELSE store
    /\ ev' = [op |-> "RefreshToken", resp |-> resp, result |-> r]
    /\ UNCHANGED <<ui, isSignedIn, pendingTokens, inflight, backendAuth, loading, error,
                   runs, signIns, resolved, logoutAt>>

\* authService.refreshToken(refreshToken): the result goes to the caller only.
RefreshTokenRequest(resp) ==
    /\ ev' = [op |-> "RefreshToken", resp |-> resp, result |-> refreshToken(resp)]
    /\ UNCHANGED <<ui, isSignedIn, pendingTokens, inflight, backendAuth, loading, error,
                   store, runs, signIns, resolved, logoutAt>>

\* What fetch() can settle with for POST /v1/coinbase/send.
SendResponses ==
    { [net |-> TRUE, status |-> 200, body |-> BodyData([status |-> "validated"])],
      [net |-> TRUE, status |-> 400, body |-> BodyMessage("Insufficient balance")] }

\* AuthService.sendUSDC, from the settled fetch to its own settlement; on
\* success the whole parsed body is returned.
sendUSDC(resp) ==
    IF ~resp.net
    THEN [ok |-> FALSE, isError |-> TRUE, message |-> "Failed to fetch"]
    ELSE IF ~ResponseOk(resp)
    THEN LET errorData == IF resp.body.json THEN resp.body ELSE BodyEmpty
             m == IF errorData = BodyNull
                  THEN NullPropertyMessage("message")
                  ELSE IF errorData.hasMessage /\ errorData.message # ""
                  THEN errorData.message
                  ELSE "Failed to validate transaction: " \o StatusText(resp.status)
         IN [ok |-> FALSE, isError |-> TRUE, message |-> m]
    ELSE IF ~resp.body.json
    THEN [ok |-> FALSE, isError |-> TRUE, message |-> "Unexpected end of JSON input"]
    ELSE [ok |-> TRUE, value |-> resp.body]

\* authService.sendUSDC(params): authenticates with the provider token in the
\* request body and reads nothing from localStorage.
SendUSDCRequest(resp) ==
    /\ ev' = [op |-> "SendUSDC", fetched |-> TRUE, bearer |-> NULL,
              result |-> sendUSDC(resp)]
    /\ UNCHANGED <<ui, isSignedIn, pendingTokens, inflight, backendAuth, loading, error,
                   store, runs, signIns, resolved, logoutAt>>

Next ==
    \/ SignIn
    \/ SignOut
    \/ AccessorChangedSignedIn
    \/ AccessorChangedSignedOut
    \/ \E p \in pendingTokens, res \in TokenResults : TokenSettled(p, res)
    \/ \E e \in inflight, resp \in VerifyResponses : ExchangeSucceeds(e, resp)
    \/ \E e \in inflight, resp \in VerifyResponses : ExchangeFails(e, resp)
    \/ handleLogout

Spec == Init /\ [][Next]_vars

\* The lifecycle together with the backend clients that read the store.
NextClient ==
    \/ Next
    \/ \E op \in AuthServiceOps, httpOk \in BOOLEAN : AuthServiceRequest(op, httpOk)
    \/ \E op \in DepositServiceOps, httpOk \in BOOLEAN : DepositServiceRequest(op, httpOk)

SpecClient == Init /\ [][NextClient]_vars

\* For the store the provider's answers differ only in being a token or
\* not, and the backend's only in being a session, a refusal or no answer.
StoreTokenResults == { r \in TokenResults : r.token \in {"pt-1", NULL} }
StoreVerifyResponses ==
    { r \in VerifyResponses :
        r.net => (r.body = BodyMessage("invalid token") \/ (ResponseOk(r) /\ r.body.json)) }

\* The session driven by the provider's sign-in and sign-out, together with
\* every AuthService and DepositService call that can touch or read the store.
NextStore ==
    \/ SignIn
    \/ SignOut
    \/ \E p \in pendingTokens, res \in StoreTokenResults : TokenSettled(p, res)
    \/ \E e \in inflight, resp \in StoreVerifyResponses : ExchangeSucceeds(e, resp)
    \/ \E e \in inflight, resp \in StoreVerifyResponses : ExchangeFails(e, resp)
    \/ handleLogout
    \/ ClearTokens
    \/ \E resp \in RefreshResponses : RefreshTokenRequest(resp)
    \/ \E resp \in SendResponses : SendUSDCRequest(resp)
    \/ \E op \in AuthServiceOps : AuthServiceRequest(op, TRUE)
    \/ \E op \in DepositServiceOps : DepositServiceRequest(op, TRUE)

SpecStore == Init /\ [][NextStore]_vars

\* Statuses and bodies the backend, or anything between it and the browser,
\* can answer with.
WireStatuses == {200, 201, 400, 401, 403, 500}
WireBodies ==
    { BodyUnparsable, BodyNull, BodyEmpty, BodyMessage(""), BodyMessage("invalid token"),
      BodyData([accessToken |-> "bt-1", refreshToken |-> "rt-1"]) }
WireResponses ==
    { [net |-> FALSE] }
    \cup { [net |-> TRUE, status |-> st, body |-> b] : st \in WireStatuses, b \in WireBodies }

\* The same for POST /v1/coinbase/verify, whose 2xx bodies, when they are JSON
\* objects, are {"data": BackendAuthResponse} as in VerifyResponses.
WireVerifyResponses ==
    { r \in WireResponses :
        (r.net /\ ResponseOk(r) /\ r.body.json /\ r.body # BodyNull) => r.body.hasData }

\* A sign-in whose exchange, and any refresh, is answered with any response
\* of the wire.
NextWire ==
    \/ SignIn
    \/ \E p \in pendingTokens, res \in TokenResults : TokenSettled(p, res)
    \/ \E e \in inflight, resp \in WireVerifyResponses : ExchangeSucceeds(e, resp)
    \/ \E e \in inflight, resp \in WireVerifyResponses : ExchangeFails(e, resp)
    \/ \E resp \in WireResponses : RefreshTokenRequest(resp)

SpecWire == Init /\ [][NextWire]_vars


\* ---------------------------------------------------------------- properties
\* The two keys as a successful exchange with this response leaves them.
StoreOf(response) ==
    [backend_access_token |-> response.accessToken,
     backend_refresh_token |-> response.refreshToken]

\* verifyCoinbaseToken invocations made for sign-in transition k.
CallsFor(k) ==
    Cardinality({e \in inflight : e.tr = k})
        + Cardinality({i \in 1..Len(resolved) : resolved[i].tr = k})

\* C1: in the state right after an exchange resolved successfully, localStorage
\* holds exactly that response's accessToken and refreshToken under the two
\* keys and backendAuth is that response.
C1_SuccessPersistsSession ==
    ev.op = "ExchangeSucceeded" =>
        /\ store = StoreOf(ev.response)
        /\ backendAuth = ev.response

C1_Witness ==
    /\ ev.op = "ExchangeSucceeded"
    /\ ev.token = "pt-1"
    /\ store.backend_access_token = "bt-1"
    /\ store.backend_refresh_token = "rt-1"

\* C2 as stated: after a failed exchange both keys have the values they had
\* when that exchange was started, and error is the failure's message.
C2_FailureKeepsStoreSinceStart ==
    ev.op = "ExchangeFailed" =>
        /\ store = ev.before
        /\ error = ev.thrown.message

\* C2 amended: the step in which an exchange fails writes neither key (both
\* have the values they had immediately before that step) and sets error to
\* the failure's message.
C2_FailureWritesNothing ==
    [][ev'.op = "ExchangeFailed" =>
          /\ store' = store
          /\ error' = ev'.thrown.message]_vars

C2_Witness ==
    /\ ev.op = "ExchangeFailed"
    /\ store = StoreOf([accessToken |-> "bt-1", refreshToken |-> "rt-1"])
    /\ ev.before = EmptyStore
    /\ error = "invalid token"

\* C3: for every sign-in transition whose getAccessToken returned a token,
\* verifyCoinbaseToken has been invoked exactly once: never more than once per
\* transition, and once as soon as the token is there.
C3_ExchangeOncePerSignIn ==
    /\ \A k \in 1..signIns : CallsFor(k) <= 1
    /\ (ev.op = "TokenSettled" /\ ~ev.rejected /\ TokenTruthy(ev.token))
          => CallsFor(ev.tr) = 1

\* C4 as stated: localStorage holds an access token iff the most recently
\* settled exchange succeeded and no logout came after it.
C4_SessionIffLastAttemptSucceeded ==
    (store.backend_access_token # NULL)
        <=> /\ Len(resolved) > 0
            /\ Last(resolved).ok
            /\ logoutAt < Len(resolved)

\* C4 amended: localStorage holds an access token iff some exchange has
\* succeeded since the latest logout (since the start when there was none);
\* a later failed exchange does not remove it.
C4_SessionIffSuccessSinceLogout ==
    (store.backend_access_token # NULL)
        <=> \E i \in 1..Len(resolved) : i > logoutAt /\ resolved[i].ok

C4_Witness ==
    /\ store.backend_access_token # NULL
    /\ Len(resolved) = 2
    /\ resolved[1].ok
    /\ ~resolved[2].ok
    /\ logoutAt = -1

\* C5: an access token in localStorage is always the accessToken returned by
\* the most recently succeeded exchange.
C5_StoredTokenIsLatestSuccess ==
    store.backend_access_token # NULL =>
        \E i \in 1..Len(resolved) :
            /\ resolved[i].ok
            /\ \A j \in (i + 1)..Len(resolved) : ~resolved[j].ok
            /\ store.backend_access_token = resolved[i].session.accessToken

C5_Witness ==
    /\ Len(resolved) = 2
    /\ resolved[1].ok /\ resolved[1].session.accessToken = "bt-1"
    /\ resolved[2].ok /\ resolved[2].session.accessToken = "bt-2"
    /\ store.backend_access_token = "bt-2"

\* C6: a request that sends the stored token as a Bearer credential and is
\* made while localStorage holds no access token fails with the
\* missing-credential error without calling fetch.
C6_NoTokenNoFetch ==
    (ev.op = "Request" /\ ev.stored = NULL) =>
        /\ ~ev.fetched
        /\ ev.thrown = MissingCredentialMessage

\* C7: the step in which isSignedIn turns false sets backendAuth and error to
\* null and leaves both localStorage keys as they were.
C7_SignOutClearsMemoryOnly ==
    [][(isSignedIn /\ ~isSignedIn') =>
          /\ backendAuth' = NullAuth
          /\ error' = NULL
          /\ store' = store]_vars

C7_Witness ==
    /\ ev.op = "SignOut"
    /\ backendAuth = NullAuth
    /\ error = NULL
    /\ store = StoreOf([accessToken |-> "bt-1", refreshToken |-> "rt-1"])

\* C8: when getAccessToken rejects or returns no token, that step starts no
\* exchange and leaves backendAuth, error, loading and localStorage as they
\* were.
C8_NoTokenNoExchange ==
    [][(ev'.op = "TokenSettled" /\ (ev'.rejected \/ ev'.token = NULL \/ ev'.token = "")) =>
          /\ inflight' = inflight
          /\ resolved' = resolved
          /\ backendAuth' = backendAuth
          /\ error' = error
          /\ loading' = loading
          /\ store' = store]_vars

C8_Witness ==
    /\ ev.op = "TokenSettled"
    /\ ~ev.rejected
    /\ ev.token = NULL
    /\ isSignedIn
    /\ Started = 0
    /\ pendingTokens = {}
    /\ ~loading

\* C9: when an exchange that was started earlier resolves successfully after
\* one that was started later, localStorage and backendAuth are those of the
\* exchange that resolved last.
C9_LastResolvedWins ==
    \A i \in 1..(Len(resolved) - 1) :
        ( /\ i + 1 = Len(resolved)
          /\ ev.op = "ExchangeSucceeded"
          /\ resolved[i + 1].id < resolved[i].id )
        => /\ store = StoreOf(resolved[i + 1].session)
           /\ backendAuth = resolved[i + 1].session

C9_Witness ==
    /\ Len(resolved) = 2
    /\ resolved[1].id = 2 /\ resolved[1].ok /\ resolved[1].session.accessToken = "bt-2"
    /\ resolved[2].id = 1 /\ resolved[2].ok /\ resolved[2].session.accessToken = "bt-1"
    /\ ev.op = "ExchangeSucceeded" /\ ev.token = "pt-1"
    /\ store.backend_access_token = "bt-1"
    /\ backendAuth.accessToken = "bt-1"

\* C10: a sign-out leaves the exchanges in flight in flight, and an exchange
\* that was in flight at a sign-out and resolves successfully while the user
\* is signed out still writes its two tokens to localStorage.
C10_SignOutDoesNotCancel ==
    [][ /\ (isSignedIn /\ ~isSignedIn') =>
              {e.id : e \in inflight'} = {e.id : e \in inflight}
        /\ (ev'.op = "ExchangeSucceeded" /\ ev'.signedOut /\ ~isSignedIn') =>
              store' = StoreOf(ev'.response) ]_vars

C10_Witness ==
    /\ ev.op = "ExchangeSucceeded"
    /\ ev.signedOut
    /\ ~isSignedIn
    /\ signIns = 1
    /\ store = StoreOf(ev.response)


\* ------------------------------------------------- send modal and balance
\* The signed-in view with a session: the first exchange of the first sign-in
\* has succeeded, WalletBalance has fetched on mount, the modal is closed.
InitSend ==
    LET session == [accessToken |-> "bt-1", refreshToken |-> "rt-1"] IN
    /\ isSignedIn = TRUE
    /\ pendingTokens = {}
    /\ inflight = {}
    /\ backendAuth = session
    /\ loading = FALSE
    /\ error = NULL
    /\ store = setItems(EmptyStore, session)
    /\ runs = 1
    /\ signIns = 1
    /\ resolved = <<[id |-> 1, tr |-> 1, ok |-> TRUE, session |-> session]>>
    /\ logoutAt = -1
    /\ ev = [op |-> "Mounted"]
    /\ ui \in {UiInit(v) : v \in Variants}

\* Everything of the lifecycle, untouched by the modal and the balance card.
SessionVars ==
    <<isSignedIn, pendingTokens, inflight, backendAuth, loading, error, store, runs,
      signIns, resolved, logoutAt>>

\* `if (!isOpen)` reset effect of the modal: the form state of both variants;
\* the signButton variant also drops validated, success and transactionHash,
\* the userOp variant leaves the hook's status and data as they are.
resetOnClose(u) ==
    IF u.variant = "signButton"
    THEN [u EXCEPT !.recipient = "", !.amount = "", !.formError = NULL,
                   !.validating = FALSE, !.validated = FALSE,
                   !.transaction = NoTransaction, !.status = "idle", !.hash = NoHash]
    ELSE [u EXCEPT !.recipient = "", !.amount = "", !.formError = NULL]

\* onClose={() => setIsSendModalOpen(false)}, called by `who`, followed by the
\* reset effect when isOpen changed.
onClose(u, who) ==
    LET closed == [u EXCEPT !.isSendModalOpen = FALSE, !.closedBy = who] IN
    IF u.isSendModalOpen THEN resetOnClose(closed) ELSE closed

\* onSuccess={() => setBalanceRefreshKey(prev => prev + 1)}
onSuccess(u) == [u EXCEPT !.balanceRefreshKey = u.balanceRefreshKey + 1]

\* The Send button, disabled={!backendAuth}.
OpenSendModal ==
    /\ isSignedIn
    /\ backendAuth # NullAuth
    /\ ~ui.isSendModalOpen
    /\ ui' = [ui EXCEPT !.isSendModalOpen = TRUE]
    /\ ev' = [op |-> "OpenSendModal"]
    /\ UNCHANGED SessionVars

\* handleClose from the close button, the overlay or Close.
UserClose ==
    /\ ui.isSendModalOpen
    /\ ui' = onClose(ui, "user")
    /\ ev' = [op |-> "UserClose"]
    /\ UNCHANGED SessionVars

\* The input checks of handleSubmit and handleValidate: the message of the
\* first one that fails, or NULL.
inputError(u) ==
    IF u.recipient = "" THEN "Please enter a valid Ethereum address (0x...)"
    ELSE IF u.amount = "" THEN "Please enter a valid amount greater than 0"
    ELSE NULL

\* The inputs of the form are rendered and enabled.
InputsEnabled ==
    /\ ui.isSendModalOpen
    /\ IF ui.variant = "userOp"
       THEN ui.status \in {"idle", "error"}
       ELSE ui.status = "idle" /\ ~ui.validating
                /\ ~(ui.validated /\ ui.transaction # NoTransaction)

\* onChange of the recipient input.
setRecipientAddress(r) ==
    /\ InputsEnabled
    /\ ui.recipient # r
    /\ ui' = [ui EXCEPT !.recipient = r]
    /\ ev' = [op |-> "setRecipientAddress"]
    /\ UNCHANGED SessionVars

\* onChange of the amount input.
setAmount(a) ==
    /\ InputsEnabled
    /\ ui.amount # a
    /\ ui' = [ui EXCEPT !.amount = a]
    /\ ev' = [op |-> "setAmount"]
    /\ UNCHANGED SessionVars

\* userOp: handleSubmit up to `await sendUserOperation`, or to the return
\* after a failed input check.
handleSubmit ==
    /\ ui.variant = "userOp"
    /\ ui.isSendModalOpen
    /\ ui.status \in {"idle", "error"}
    /\ ui.sends < MaxSends
    /\ ui' = IF inputError(ui) # NULL
             THEN [ui EXCEPT !.formError = inputError(ui)]
             ELSE [ui EXCEPT !.formError = NULL, !.status = "pending",
                             !.sends = ui.sends + 1]
    /\ ev' = [op |-> "handleSubmit", rejected |-> inputError(ui) # NULL]
    /\ UNCHANGED SessionVars

\* userOp: the user operation settles; the hook goes to success with the
\* transaction hash or to error.
UserOperationSettles(ok) ==
    /\ ui.variant = "userOp"
    /\ ui.status = "pending"
    /\ ui' = IF ok
             THEN [ui EXCEPT !.status = "success", !.hash = TxHash(ui.sends),
                             !.sent = ui.sent \cup {TxHash(ui.sends)}]
             ELSE [ui EXCEPT !.status = "error"]
    /\ ev' = [op |-> "UserOperationSettled", ok |-> ok]
    /\ UNCHANGED SessionVars

\* userOp: the effect on [status, data, onSuccess]. onSuccess is an inline
\* arrow of WalletInfo, new on every render of WalletInfo, and the increment
\* it makes re-renders WalletInfo: the effect is due again after each run.
SuccessEffect ==
    /\ ui.variant = "userOp"
    /\ ui.status = "success"
    /\ ui.hash # NoHash
    /\ ui.balanceRefreshKey < MaxRefreshKey
    /\ ui' = onSuccess(ui)
    /\ ev' = [op |-> "SuccessEffect"]
    /\ UNCHANGED SessionVars

\* signButton: handleValidate, submitted from the form, up to its first
\* await or to the return after a failed input check. Its closure holds the
\* recipient and the amount of the render it was submitted from.
handleValidate ==
    /\ ui.variant = "signButton"
    /\ InputsEnabled
    /\ ui.validation = NoValidation
    /\ ui.sends < MaxSends
    /\ ui' = IF inputError(ui) # NULL
             THEN [ui EXCEPT !.formError = inputError(ui)]
             ELSE [ui EXCEPT !.formError = NULL, !.validating = TRUE,
                             !.validation = [recipient |-> ui.recipient,
                                             amount |-> ui.amount],
                             !.sends = ui.sends + 1]
    /\ ev' = [op |-> "handleValidate", rejected |-> inputError(ui) # NULL]
    /\ UNCHANGED SessionVars

\* signButton: sendUSDC settles and handleValidate runs to its end: the
\* transaction is built from the closure's recipient and amount and validated
\* is set, or the catch sets the error; finally validating is false.
ValidationSettles(resp) ==
    LET r == sendUSDC(resp)
        passed == r.ok /\ r.value.hasData
        message == IF r.ok THEN "Invalid validation response from backend"
                   ELSE r.message
    IN
    /\ ui.variant = "signButton"
    /\ ui.validation # NoValidation
    /\ ui' = IF passed
             THEN [ui EXCEPT !.validating = FALSE, !.validated = TRUE,
                             !.transaction = [to |-> ui.validation.recipient,
                                              amount |-> ui.validation.amount],
                             !.validation = NoValidation]
             ELSE [ui EXCEPT !.validating = FALSE, !.formError = message,
                             !.validation = NoValidation]
    /\ ev' = [op |-> "ValidationSettled", result |-> r, passed |-> passed]
    /\ UNCHANGED SessionVars

\* The confirm view with SendEvmTransactionButton is rendered.
SignControlOffered ==
    /\ ui.variant = "signButton"
    /\ ui.isSendModalOpen
    /\ ui.status = "idle"
    /\ ui.validated
    /\ ui.transaction # NoTransaction

\* signButton: handleBack.
handleBack ==
    /\ SignControlOffered
    /\ ui' = [ui EXCEPT !.validated = FALSE, !.transaction = NoTransaction,
                        !.formError = NULL]
    /\ ev' = [op |-> "handleBack"]
    /\ UNCHANGED SessionVars

\* signButton: SendEvmTransactionButton reports a hash or an error:
\* handleTransactionSuccess (which arms the 5 s timer) or
\* handleTransactionError.
TransactionSettles(ok) ==
    /\ SignControlOffered
    /\ ui' = IF ok
             THEN [ui EXCEPT !.status = "success", !.hash = TxHash(ui.sends),
                             !.sent = ui.sent \cup {TxHash(ui.sends)},
                             !.timer = TRUE]
             ELSE [ui EXCEPT !.formError = "Failed to send transaction",
                             !.validated = FALSE, !.transaction = NoTransaction]
    /\ ev' = [op |-> "TransactionSettled", ok |-> ok]
    /\ UNCHANGED SessionVars

\* signButton: the timeout armed by handleTransactionSuccess fires:
\* handleClose(), then onSuccess().
TimerFires ==
    /\ ui.variant = "signButton"
    /\ ui.timer
    /\ ui.balanceRefreshKey < MaxRefreshKey
    /\ ui' = onSuccess([onClose(ui, "timer") EXCEPT !.timer = FALSE])
    /\ ev' = [op |-> "TimerFired"]
    /\ UNCHANGED SessionVars

\* WalletBalance.fetchBalances, started by handleRefresh.
handleRefresh ==
    /\ ui.fetches < MaxFetches
    /\ ui' = [ui EXCEPT !.fetches = ui.fetches + 1,
                        !.fetchedKey = ui.balanceRefreshKey]
    /\ ev' = [op |-> "handleRefresh"]
    /\ UNCHANGED SessionVars

\* WalletBalance.handleNetworkChange: network is a dependency of the effect
\* that calls fetchBalances.
handleNetworkChange ==
    /\ ui.fetches < MaxFetches
    /\ ui' = [ui EXCEPT !.fetches = ui.fetches + 1,
                        !.fetchedKey = ui.balanceRefreshKey]
    /\ ev' = [op |-> "handleNetworkChange"]
    /\ UNCHANGED SessionVars

NextSend ==
    \/ OpenSendModal
    \/ UserClose
    \/ \E r \in FormRecipients : setRecipientAddress(r)
    \/ \E a \in FormAmounts : setAmount(a)
    \/ handleSubmit
    \/ \E ok \in BOOLEAN : UserOperationSettles(ok)
    \/ SuccessEffect
    \/ handleValidate
    \/ \E resp \in SendResponses : ValidationSettles(resp)
    \/ handleBack
    \/ \E ok \in BOOLEAN : TransactionSettles(ok)
    \/ TimerFires
    \/ handleRefresh
    \/ handleNetworkChange
    \/ handleLogout

SpecSend == InitSend /\ [][NextSend]_vars

\* Something started by the modal has yet to come back: a user operation or
\* a validation in flight, or the timer.
Outstanding == ui.status = "pending" \/ ui.validation # NoValidation \/ ui.timer

\* The step just taken ran code that follows a successful send: the success
\* effect (userOp), handleTransactionSuccess or its timer (signButton).
AfterSuccessHandler ==
    \/ ev.op \in {"SuccessEffect", "TimerFired"}
    \/ ev.op = "TransactionSettled" /\ ev.ok

\* --------------------------------------------------- transaction history
\* Values of `type` in the backend's transactions: the five of
\* TransactionType and one that is not among them.
BackendTypes == {"withdraw", "deposit", "invest", "reward", "refund", "transfer"}

\* Pages of the history: up to MaxTxs transactions, given by their types.
HistoryPages == UNION { [1..n -> BackendTypes] : n \in 0..MaxTxs }

\* Variant: invest is shown as incoming.
uiType_InvestReceives(type) ==
    IF type = "withdraw" THEN "send"
    ELSE IF type \in {"deposit", "reward", "refund", "invest"} THEN "receive"
    ELSE "send"

\* let uiType = 'send'; if (withdraw) 'send' else if (deposit | reward |
\* refund) 'receive'
uiType(type) ==
    IF type = "withdraw" THEN "send"
    ELSE IF type = "deposit" \/ type = "reward" \/ type = "refund" THEN "receive"
    ELSE "send"

\* TransactionHistory before it is rendered: useState defaults, and as
\* history the sign-in for which it has fetched on mount (fetchedFor) and the
\* getTransactionHistory call not yet settled (pending).
HistoryInit ==
    [fetchedFor |-> 0, pending |-> FALSE, loading |-> FALSE, error |-> NULL,
     transactions |-> <<>>]

InitHistory ==
    /\ isSignedIn = FALSE
    /\ pendingTokens = {}
    /\ inflight = {}
    /\ backendAuth = NullAuth
    /\ loading = FALSE
    /\ error = NULL
    /\ store = EmptyStore
    /\ runs = 0
    /\ signIns = 0
    /\ resolved = <<>>
    /\ logoutAt = -1
    /\ ev = [op |-> "Init"]
    /\ ui = HistoryInit

\* fetchTransactionHistory up to the end of authService.getTransactionHistory's
\* synchronous part: the token is read, and without one the call throws at
\* once and the catch-branch shows the friendly message.
fetchTransactionHistory(u, st) ==
    LET call == authServiceCall("getTransactionHistory", st, TRUE) IN
    IF call.fetched
    THEN [u EXCEPT !.pending = TRUE, !.loading = TRUE, !.error = NULL]
    ELSE [u EXCEPT !.pending = FALSE, !.loading = FALSE,
                   !.error = "Please authenticate to view transaction history"]

\* The effect on [evmAddress, activeTab, fetchTransactionHistory]: the first
\* fetch of a sign-in, made as soon as the signed-in view has an evmAddress.
TransactionHistoryMounts ==
    /\ isSignedIn
    /\ ui.fetchedFor < signIns
    /\ ui' = [fetchTransactionHistory(ui, store) EXCEPT !.fetchedFor = signIns]
    /\ ev' = [op |-> "HistoryRequested", first |-> TRUE,
              call |-> authServiceCall("getTransactionHistory", store, TRUE)]
    /\ UNCHANGED SessionVars

\* TransactionHistory.handleRefresh.
TransactionHistoryRefresh ==
    /\ isSignedIn
    /\ ui.fetchedFor = signIns
    /\ ~ui.pending
    /\ ui' = fetchTransactionHistory(ui, store)
    /\ ev' = [op |-> "HistoryRequested", first |-> FALSE,
              call |-> authServiceCall("getTransactionHistory", store, TRUE)]
    /\ UNCHANGED SessionVars

\* The request settles with a page: each transaction gets its uiType.
TransactionHistoryResolves(page) ==
    /\ ui.pending
    /\ ui' = [ui EXCEPT !.pending = FALSE, !.loading = FALSE,
                        !.transactions = [i \in DOMAIN page |-> uiType(page[i])]]
    /\ ev' = [op |-> "HistoryResolved", page |-> page]
    /\ UNCHANGED SessionVars

\* The request settles with a non-2xx response.
TransactionHistoryRejects ==
    /\ ui.pending
    /\ ui' = [ui EXCEPT !.pending = FALSE, !.loading = FALSE,
                        !.error = "Failed to fetch transaction history: 500"]
    /\ ev' = [op |-> "HistoryRejected"]
    /\ UNCHANGED SessionVars

\* One sign-in, its exchange, and the history card of the signed-in view.
NextHistory ==
    \/ SignIn
    \/ \E p \in pendingTokens, res \in StoreTokenResults : TokenSettled(p, res)
    \/ \E e \in inflight, resp \in StoreVerifyResponses : ExchangeSucceeds(e, resp)
    \/ \E e \in inflight, resp \in StoreVerifyResponses : ExchangeFails(e, resp)
    \/ TransactionHistoryMounts
    \/ TransactionHistoryRefresh
    \/ \E page \in HistoryPages : TransactionHistoryResolves(page)
    \/ TransactionHistoryRejects

SpecHistory == InitHistory /\ [][NextHistory]_vars

\* ---------------------------------------------------------- wallet balance
\* `result` of a JSON-RPC answer: absent, '0x', not hexadecimal, zero, or a
\* positive amount.
RpcResults == {"missing", "0x", "0xzz", "0x0", "0xde0b6b3a7640000"}

\* What an RPC call can settle with: a rejected fetch, a body that is not
\* JSON (a rate-limit page), the JSON text null, {"error": ...}, or a body
\* with (or without) a result.
RpcResponses ==
    { [net |-> FALSE, json |-> FALSE, isNull |-> FALSE, error |-> FALSE, result |-> "missing"],
      [net |-> TRUE, json |-> FALSE, isNull |-> FALSE, error |-> FALSE, result |-> "missing"],
      [net |-> TRUE, json |-> TRUE, isNull |-> TRUE, error |-> FALSE, result |-> "missing"],
      [net |-> TRUE, json |-> TRUE, isNull |-> FALSE, error |-> TRUE, result |-> "missing"] }
    \cup { [net |-> TRUE, json |-> TRUE, isNull |-> FALSE, error |-> FALSE, result |-> r] :
               r \in RpcResults }

\* parseERC20Balance / weiToEth: startsWith on undefined and BigInt on '0x'
\* or on non-hexadecimal text throw; otherwise the amount as decimal text.
parseERC20Balance(hex) ==
    CASE hex = "0x0" -> [thrown |-> FALSE, value |-> "0.000000000000000000"]
      [] hex = "0xde0b6b3a7640000" -> [thrown |-> FALSE, value |-> "1.000000000000000000"]
      [] OTHER -> [thrown |-> TRUE, value |-> NULL]

\* parseFloat of a balance text, in whole units.
parseFloat(text) == IF text \in {"1.000000000000000000", "1.000000"} THEN 1 ELSE 0

\* formatBalance(balance, 6)
formatBalance(text) == IF parseFloat(text) = 1 THEN "1.000000" ELSE "0.000000"

\* The try-block of an RPC call up to the parsed body: does it throw?
rpcThrows(resp) == ~resp.net \/ ~resp.json \/ resp.isNull

\* Variant: a JSON-RPC error is rethrown instead of degrading to '0'.
fetchNativeBalance_Rethrows(resp) ==
    IF rpcThrows(resp)
    THEN [thrown |-> FALSE, symbol |-> "ETH", balance |-> "0"]
    ELSE IF resp.error
    THEN [thrown |-> TRUE, message |-> "execution reverted"]
    ELSE IF parseERC20Balance(resp.result).thrown
    THEN [thrown |-> FALSE, symbol |-> "ETH", balance |-> "0"]
    ELSE [thrown |-> FALSE, symbol |-> "ETH",
          balance |-> formatBalance(parseERC20Balance(resp.result).value)]

\* fetchNativeBalance: every failure inside the try ends in the catch.
fetchNativeBalance(resp) ==
    IF rpcThrows(resp) \/ resp.error \/ parseERC20Balance(resp.result).thrown
    THEN [thrown |-> FALSE, symbol |-> "ETH", balance |-> "0"]
    ELSE [thrown |-> FALSE, symbol |-> "ETH",
          balance |-> formatBalance(parseERC20Balance(resp.result).value)]

\* One element of balancePromises: <<entry>> or <<>> for null.
fetchTokenBalance(symbol, resp) ==
    IF rpcThrows(resp) THEN <<>>
    ELSE IF resp.error \/ resp.result = "missing" \/ resp.result = "0x" THEN <<>>
    ELSE IF parseERC20Balance(resp.result).thrown THEN <<>>
    ELSE IF parseFloat(parseERC20Balance(resp.result).value) > 0
    THEN <<[thrown |-> FALSE, symbol |-> symbol,
            balance |-> formatBalance(parseERC20Balance(resp.result).value)]>>
    ELSE <<>>

\* getTokenAddresses(network), by symbol.
TokensOf(network) ==
    IF network = "base-mainnet" THEN <<"USDC", "DAI">> ELSE <<"USDC">>

Networks == {"base-sepolia", "base-mainnet"}

RECURSIVE fetchTokenBalances(_, _)
\* fetchTokenBalances: Promise.all, then the nulls are filtered out.
fetchTokenBalances(symbols, resps) ==
    IF symbols = <<>> THEN <<>>
    ELSE fetchTokenBalance(Head(symbols), Head(resps))
             \o fetchTokenBalances(Tail(symbols), Tail(resps))

\* balances.sort((a, b) => parseFloat(b.balance) - parseFloat(a.balance))
sortBalancesByValue(bs) ==
    LET Positive(b) == parseFloat(b.balance) > 0
        Zero(b) == parseFloat(b.balance) <= 0
    IN SelectSeq(bs, Positive) \o SelectSeq(bs, Zero)

\* WalletBalance after mount: useState defaults, and as history the
\* fetchBalances calls not yet settled, by network.
BalanceInit ==
    [loading |-> FALSE, error |-> NULL, balances |-> <<>>, network |-> "base-sepolia",
     pending |-> <<>>, fetches |-> 0]

InitBalance ==
    LET session == [accessToken |-> "bt-1", refreshToken |-> "rt-1"] IN
    /\ isSignedIn = TRUE
    /\ pendingTokens = {}
    /\ inflight = {}
    /\ backendAuth = session
    /\ loading = FALSE
    /\ error = NULL
    /\ store = setItems(EmptyStore, session)
    /\ runs = 1
    /\ signIns = 1
    /\ resolved = <<[id |-> 1, tr |-> 1, ok |-> TRUE, session |-> session]>>
    /\ logoutAt = -1
    /\ ev = [op |-> "Mounted"]
    /\ ui = BalanceInit

\* fetchBalances up to its first await: started by the effect on mount, by
\* handleRefresh, or by the effect after handleNetworkChange.
fetchBalancesStarts(network) ==
    /\ ui.fetches < MaxFetches
    /\ ui' = [ui EXCEPT !.loading = TRUE, !.error = NULL, !.network = network,
                        !.pending = Append(ui.pending, network),
                        !.fetches = ui.fetches + 1]
    /\ ev' = [op |-> "BalancesRequested", network |-> network]
    /\ UNCHANGED SessionVars

\* The rest of one fetchBalances call: both helpers have settled; what they
\* return goes through sortBalancesByValue into balances, what they throw
\* into error; finally loading is false.
fetchBalancesSettles(k, native, tokens) ==
    LET network == ui.pending[k]
        nativeBalance == fetchNativeBalance(native)
        rest == [i \in 1..(Len(ui.pending) - 1) |->
                    IF i < k THEN ui.pending[i] ELSE ui.pending[i + 1]]
    IN
    /\ k \in DOMAIN ui.pending
    /\ Len(tokens) = Len(TokensOf(network))
    /\ ui' = IF nativeBalance.thrown
             THEN [ui EXCEPT !.error = nativeBalance.message, !.loading = FALSE,
                             !.pending = rest]
             ELSE [ui EXCEPT !.balances =
                                 sortBalancesByValue(<<nativeBalance>> \o
                                     fetchTokenBalances(TokensOf(network), tokens)),
                             !.loading = FALSE, !.pending = rest]
    /\ ev' = [op |-> "BalancesFetched", network |-> network, native |-> native,
              tokens |-> tokens]
    /\ UNCHANGED SessionVars

NextBalance ==
    \/ \E network \in Networks : fetchBalancesStarts(network)
    \/ \E k \in 1..MaxFetches, native \in RpcResponses,
          tokens \in [1..1 -> RpcResponses] \cup [1..2 -> RpcResponses] :
              fetchBalancesSettles(k, native, tokens)

SpecBalance == InitBalance /\ [][NextBalance]_vars

\* The RPC call fails: network error, rate-limit page, JSON-RPC error, or a
\* result that cannot be parsed.
RpcFailed(resp) ==
    \/ ~resp.net
    \/ ~resp.json
    \/ resp.isNull
    \/ resp.error
    \/ resp.result \in {"missing", "0x", "0xzz"}

\* ----------------------------------------------------------- CDP services
CdpServices == {"DepositService", "SmartAccountService"}

ServerSideOnlyMessage ==
    "This method requires CDP SDK and can only be called from server-side. Please use backend API."

\* The methods that use this.cdpClient, with the messages they throw in a
\* browser, while the client is null, and when the client's call rejects.
CdpMethods ==
    { [service |-> "DepositService", name |-> "createEvmAccount",
       inBrowser |-> ServerSideOnlyMessage,
       uninitialized |-> "CDP SDK not initialized. Call initializeCDP() first",
       failed |-> "Failed to create regular EVM account"],
      [service |-> "DepositService", name |-> "importEvmAccount",
       inBrowser |-> ServerSideOnlyMessage,
       uninitialized |-> "CDP SDK not initialized. Call initializeCDP() first",
       failed |-> "Failed to import EVM account"],
      [service |-> "DepositService", name |-> "getOrCreateEvmAccount",
       inBrowser |-> ServerSideOnlyMessage,
       uninitialized |-> "CDP SDK not initialized. Call initializeCDP() first",
       failed |-> "Failed to get or create EVM account"],
      [service |-> "DepositService", name |-> "exportEvmAccount",
       inBrowser |-> ServerSideOnlyMessage,
       uninitialized |-> "CDP SDK not initialized. Call initializeCDP() first",
       failed |-> "Failed to export EVM account"],
      [service |-> "DepositService", name |-> "requestTestnetFunds",
       inBrowser |-> ServerSideOnlyMessage,
       uninitialized |-> "CDP SDK not initialized. Call initializeCDP() first",
       failed |-> "Failed to request testnet funds. Make sure you are on a testnet network."],
      [service |-> "SmartAccountService", name |-> "createSmartAccount",
       inBrowser |-> "Smart Accounts can only be created from backend. Call backend API.",
       uninitialized |-> "CDP SDK not initialized",
       failed |-> "Failed to create smart account"],
      [service |-> "SmartAccountService", name |-> "getOrCreateSmartAccount",
       inBrowser |-> "Use backend API for smart account operations",
       uninitialized |-> "CDP SDK not initialized",
       failed |-> "Failed to get or create smart account"],
      [service |-> "SmartAccountService", name |-> "sendSponsoredTransaction",
       inBrowser |-> "Use backend API for transaction operations",
       uninitialized |-> "CDP SDK not initialized",
       failed |-> "Failed to send sponsored transaction"],
      [service |-> "SmartAccountService", name |-> "sendBatchTransactions",
       inBrowser |-> "Use backend API for batch operations",
       uninitialized |-> "CDP SDK not initialized",
       failed |-> "Failed to send batch transactions"] }

\* Variant: initializeCDP without the isBrowser return.
initializeCDP_InBrowser(service, browser, client, credentials, sdkOk) ==
    IF ~sdkOk
    THEN [thrown |-> TRUE, message |-> "Failed to initialize CDP SDK", cdpClient |-> client]
    ELSE IF service = "DepositService" /\ ~credentials
    THEN [thrown |-> FALSE, message |-> NULL, cdpClient |-> client]
    ELSE [thrown |-> FALSE, message |-> NULL, cdpClient |-> TRUE]

\* initializeCDP of either service; cdpClient is whether this.cdpClient is
\* non-null afterwards. sdkOk: the import and the constructor do not throw;
\* credentials: all three arguments are given.
initializeCDP(service, browser, client, credentials, sdkOk) ==
    IF browser
    THEN [thrown |-> FALSE, message |-> NULL, cdpClient |-> client]
    ELSE IF ~sdkOk
    THEN [thrown |-> TRUE, message |-> "Failed to initialize CDP SDK", cdpClient |-> client]
    ELSE IF service = "DepositService" /\ ~credentials
    THEN [thrown |-> FALSE, message |-> NULL, cdpClient |-> client]
    ELSE [thrown |-> FALSE, message |-> NULL, cdpClient |-> TRUE]

\* One of CdpMethods, called with the service in the given state; clientOk:
\* the calls on the client resolve.
cdpMethod(m, browser, client, clientOk) ==
    IF browser
    THEN [thrown |-> TRUE, message |-> m.inBrowser, calledClient |-> FALSE]
    ELSE IF ~client
    THEN [thrown |-> TRUE, message |-> m.uninitialized, calledClient |-> FALSE]
    ELSE IF ~clientOk
    THEN [thrown |-> TRUE, message |-> m.failed, calledClient |-> TRUE]
    ELSE [thrown |-> FALSE, message |-> NULL, calledClient |-> TRUE]

\* The two service singletons after module load, in a browser or not:
\* cdpClient per service (non-null or not) and, as history, whether an
\* initializeCDP call created it and how often a client was called.
CdpInit(browser) ==
    [isBrowser |-> browser,
     cdpClient |-> [s \in CdpServices |-> FALSE],
     created |-> [s \in CdpServices |-> FALSE],
     clientCalls |-> 0]

InitCdp ==
    /\ isSignedIn = FALSE
    /\ pendingTokens = {}
    /\ inflight = {}
    /\ backendAuth = NullAuth
    /\ loading = FALSE
    /\ error = NULL
    /\ store = EmptyStore
    /\ runs = 0
    /\ signIns = 0
    /\ resolved = <<>>
    /\ logoutAt = -1
    /\ ev = [op |-> "Init"]
    /\ ui \in {CdpInit(browser) : browser \in BOOLEAN}

InitializeCDP(service, credentials, sdkOk) ==
    LET r == initializeCDP(service, ui.isBrowser, ui.cdpClient[service], credentials, sdkOk)
    IN
    /\ ui' = [ui EXCEPT !.cdpClient[service] = r.cdpClient,
                        !.created[service] =
                            ui.created[service]
                                \/ (~r.thrown /\ r.cdpClient /\ ~ui.cdpClient[service])]
    /\ ev' = [op |-> "initializeCDP", service |-> service, thrown |-> r.thrown,
              message |-> r.message]
    /\ UNCHANGED SessionVars

CallCdpMethod(m, clientOk) ==
    LET r == cdpMethod(m, ui.isBrowser, ui.cdpClient[m.service], clientOk) IN
    /\ ui.clientCalls < MaxCdpCalls
    /\ ui' = [ui EXCEPT !.clientCalls = IF r.calledClient THEN ui.clientCalls + 1
                                        ELSE ui.clientCalls]
    /\ ev' = [op |-> "CdpMethod", service |-> m.service, name |-> m.name,
              hadClient |-> ui.cdpClient[m.service], thrown |-> r.thrown,
              message |-> r.message, calledClient |-> r.calledClient]
    /\ UNCHANGED SessionVars

NextCdp ==
    \/ \E service \in CdpServices, credentials \in BOOLEAN, sdkOk \in BOOLEAN :
           InitializeCDP(service, credentials, sdkOk)
    \/ \E m \in CdpMethods, clientOk \in BOOLEAN : CallCdpMethod(m, clientOk)

SpecCdp == InitCdp /\ [][NextCdp]_vars

\* Index in resolved of the most recently succeeded exchange (0 when none).
LatestOk ==
    IF \E i \in 1..Len(resolved) : resolved[i].ok
    THEN CHOOSE i \in 1..Len(resolved) :
             resolved[i].ok /\ \A j \in (i + 1)..Len(resolved) : ~resolved[j].ok
    ELSE 0

\* C11: no request sends as Bearer credential an access token that was written
\* by an exchange of an earlier sign-in transition than the current one.
C11_NoStaleTokenRead ==
    (ev.op = "Request" /\ ev.fetched /\ ev.stored # NULL /\ LatestOk > 0)
        => ~(resolved[LatestOk].tr < signIns)

\* C12: a step changes localStorage only when it is a successful exchange
\* (both keys set from the response) or a logout / clearTokens (both keys
\* removed); failed exchanges, refreshToken, the Bearer requests, sendUSDC and
\* the provider's sign-in and sign-out leave both keys as they were.
C12_StoreWrittenOnlyBySuccessAndLogout ==
    [][store' # store =>
          \/ ev'.op = "ExchangeSucceeded" /\ store' = StoreOf(ev'.response)
          \/ ev'.op \in {"Logout", "ClearTokens"} /\ store' = EmptyStore]_vars

C12_Witness ==
    /\ ev.op = "RefreshToken"
    /\ ev.result.ok
    /\ ev.result.value.accessToken = "bt-2"
    /\ store = StoreOf([accessToken |-> "bt-1", refreshToken |-> "rt-1"])

\* C13: within a sign-in transition the steps come in the order observe, get
\* token, exchange, persist: getAccessToken is called only by an effect run
\* that observed isSignedIn true; an exchange is issued only by the step in
\* which a getAccessToken call of the same transition returned, and with the
\* token it returned; localStorage receives a token only in the step in which
\* an exchange that was in flight resolved successfully, and it is that
\* exchange's response.
C13_ObserveTokenExchangePersist ==
    [][ /\ \A p \in pendingTokens' \ pendingTokens :
               /\ isSignedIn'
               /\ ev'.op \in {"SignIn", "AccessorChanged"}
               /\ p.tr = signIns'
        /\ \A e \in inflight' :
               (\A x \in inflight : x.id # e.id) =>
                   /\ ev'.op = "TokenSettled"
                   /\ ~ev'.rejected
                   /\ TokenTruthy(ev'.token)
                   /\ e.token = ev'.token
                   /\ \E p \in pendingTokens \ pendingTokens' : p.tr = e.tr
        /\ (store' # store /\ store'.backend_access_token # NULL) =>
               /\ ev'.op = "ExchangeSucceeded"
               /\ \E e \in inflight \ inflight' : e.id = ev'.id
               /\ store' = StoreOf(ev'.response)
      ]_vars

C13_Witness ==
    /\ ev.op = "ExchangeSucceeded"
    /\ ev.id = 1
    /\ ev.token = "pt-2"
    /\ signIns = 1
    /\ runs = 1
    /\ pendingTokens = {}
    /\ inflight = {}
    /\ store = StoreOf(ev.response)

C15_ClearTokensIdempotent ==
    ev.op = "ClearTokens" =>
        /\ ~ev.threw
        /\ store = EmptyStore
        /\ clearTokens(store) = [store |-> store, threw |-> FALSE]

C15_Witness ==
    /\ ev.op = "ClearTokens"
    /\ ev.nth = 2
    /\ ~ev.threw
    /\ store = EmptyStore

\* C16: for every non-2xx response to the exchange call verifyCoinbaseToken
\* fails with the body's message when the body parses as JSON and has one,
\* and otherwise with 'HTTP error! status: <status>'; no failure to read the
\* error body is propagated; WalletInfo exposes that message, and after a 401
\* with {"message": "invalid token"} on the first exchange the exposed error
\* is "invalid token" and localStorage is still empty.
C16_ErrorMessageFromBodyOrStatus ==
    (ev.op = "ExchangeFailed" /\ ev.resp.net /\ ~ResponseOk(ev.resp)) =>
        LET b == ev.resp.body
            expected == IF b.json /\ b.hasMessage /\ b.message # ""
                        THEN b.message
                        ELSE "HTTP error! status: " \o StatusText(ev.resp.status)
        IN /\ ev.thrown.isError
           /\ ev.thrown.message = expected
           /\ error = expected
           /\ (ev.resp.status = 401 /\ b = BodyMessage("invalid token")
                   /\ Len(resolved) = 1) =>
                  (error = "invalid token" /\ store = EmptyStore)

\* C17: for every non-2xx response refreshToken fails with the one message
\* 'Failed to refresh token', whatever the status and the body; for a 2xx
\* response with a JSON object as body it returns the body's data field.
C17_RefreshGenericErrorOrData ==
    (ev.op = "RefreshToken" /\ ev.resp.net) =>
        /\ ~ResponseOk(ev.resp) =>
               /\ ~ev.result.ok
               /\ ev.result.message = "Failed to refresh token"
        /\ (ResponseOk(ev.resp) /\ ev.resp.body.json /\ ev.resp.body # BodyNull) =>
               /\ ev.result.ok
               /\ ev.result.value = IF ev.resp.body.hasData THEN ev.resp.body.data
                                    ELSE UNDEFINED

C17_Witness ==
    /\ ev.op = "RefreshToken"
    /\ ev.resp.net
    /\ ev.resp.status = 403
    /\ ev.resp.body = BodyMessage("invalid token")
    /\ ~ev.result.ok
    /\ ev.result.message = "Failed to refresh token"

\* C18: every send that succeeded with a transaction hash is followed by
\* recordWithdrawTransaction with that hash: once the code that handles the
\* success has run, the hash of every succeeded send has been passed to
\* recordWithdrawTransaction.
C18_SuccessfulSendIsRecorded ==
    AfterSuccessHandler => ui.sent \subseteq ui.recorded

\* C19: every increment of balanceRefreshKey is followed by a new balance
\* fetch: an increment leaves a fetch outstanding, so that once nothing is
\* outstanding the balances have been fetched since the latest increment.
C19_IncrementRefetchesBalance ==
    ~Outstanding => ui.fetchedKey = ui.balanceRefreshKey

\* C20: the send modal does not close itself: after a send has succeeded the
\* modal goes from open to closed only when the user closes it, and onClose is
\* never called by the timer or by the success handler.
C20_OnlyTheUserCloses ==
    [][ /\ (ui.isSendModalOpen /\ ~ui'.isSendModalOpen) => ev'.op = "UserClose"
        /\ ui'.closedBy \in {NULL, "user"} ]_vars

\* C27: whenever the exposed session is non-null, localStorage holds exactly
\* that session's accessToken and refreshToken; the two keys are always both
\* absent or both taken from one and the same exchange response.
C27_SessionMatchesStore ==
    /\ backendAuth # NullAuth => store = StoreOf(backendAuth)
    /\ \/ store = EmptyStore
       \/ \E i \in 1..Len(resolved) :
              resolved[i].ok /\ store = StoreOf(resolved[i].session)

C27_Witness ==
    /\ backendAuth = [accessToken |-> "bt-2", refreshToken |-> "rt-2"]
    /\ store = StoreOf(backendAuth)
    /\ Len(resolved) = 2
    /\ resolved[1].ok /\ resolved[1].session.accessToken = "bt-1"
    /\ resolved[2].ok /\ resolved[2].session.accessToken = "bt-2"
    /\ isSignedIn
    /\ inflight = {}
    /\ ~loading

\* C28: loading is true exactly in the states in which at least one exchange
\* is in flight, overlapping exchanges included.
C28_LoadingIffInFlight ==
    loading <=> inflight # {}

\* C29 as stated: starting an exchange clears the error, a failed exchange
\* leaves the session as it was, and the session is replaced only by a
\* successful exchange and set to null only by logout or by the transition to
\* not-signed-in.
C29_SessionNulledOnlyByLogoutOrSignOut ==
    [][ /\ (\E e \in inflight' : \A x \in inflight : x.id # e.id) => error' = NULL
        /\ ev'.op = "ExchangeFailed" => backendAuth' = backendAuth
        /\ backendAuth' # backendAuth =>
               IF backendAuth' = NullAuth
               THEN ev'.op \in {"Logout", "SignOut"}
               ELSE ev'.op = "ExchangeSucceeded" /\ backendAuth' = ev'.response
      ]_vars

\* C29: starting an exchange clears the error, a failed exchange leaves the
\* session as it was, and the session is replaced only by a successful
\* exchange and set to null only by logout or by a run of the effect that
\* finds the user not signed in: the transition to not-signed-in, or a change
\* of the getAccessToken accessor while not signed in.
C29_SessionChangesOnlyBySuccessLogoutOrSignedOutRun ==
    [][ /\ (\E e \in inflight' : \A x \in inflight : x.id # e.id) => error' = NULL
        /\ ev'.op = "ExchangeFailed" => backendAuth' = backendAuth
        /\ backendAuth' # backendAuth =>
               IF backendAuth' = NullAuth
               THEN \/ ev'.op = "Logout"
                    \/ ev'.op \in {"SignOut", "AccessorChanged"} /\ ~isSignedIn'
               ELSE ev'.op = "ExchangeSucceeded" /\ backendAuth' = ev'.response
      ]_vars

C29_Witness ==
    /\ ev.op = "ExchangeFailed"
    /\ backendAuth = [accessToken |-> "bt-1", refreshToken |-> "rt-1"]
    /\ error = "invalid token"
    /\ isSignedIn
    /\ inflight = {}

\* C22: every transaction of a page is shown with the direction its backend
\* type stands for: withdraw and invest as 'send', deposit, reward and refund
\* as 'receive'.
C22_DirectionFromBackendType ==
    ev.op = "HistoryResolved" =>
        /\ Len(ui.transactions) = Len(ev.page)
        /\ \A i \in DOMAIN ev.page :
               /\ ev.page[i] \in {"withdraw", "invest"} => ui.transactions[i] = "send"
               /\ ev.page[i] \in {"deposit", "reward", "refund"} =>
                      ui.transactions[i] = "receive"

C22_Witness ==
    /\ ev.op = "HistoryResolved"
    /\ ev.page = <<"invest", "refund">>
    /\ ui.transactions = <<"send", "receive">>

\* C23: the first history request of a sign-in is made only after an exchange
\* of that sign-in has resolved and stored the backend token: it never finds
\* localStorage without a token.
C23_HistoryAfterExchange ==
    (ev.op = "HistoryRequested" /\ ev.first) =>
        /\ ev.call.stored # NULL
        /\ \E i \in 1..Len(resolved) : resolved[i].ok /\ resolved[i].tr = signIns

\* C21: no failure of a balance RPC call sets the error of WalletBalance:
\* after every fetchBalances the error is null and loading is false, a failed
\* native call shows ETH with balance '0', and a token whose call failed is
\* not in the list.
C21_RpcFailuresAreSilent ==
    /\ ui.error = NULL
    /\ ev.op = "BalancesFetched" =>
           /\ ~ui.loading
           /\ RpcFailed(ev.native) =>
                  \E i \in DOMAIN ui.balances :
                      ui.balances[i].symbol = "ETH" /\ ui.balances[i].balance = "0"
           /\ \A j \in DOMAIN ev.tokens :
                  RpcFailed(ev.tokens[j]) =>
                      \A i \in DOMAIN ui.balances :
                          ui.balances[i].symbol # TokensOf(ev.network)[j]

C21_Witness ==
    /\ ev.op = "BalancesFetched"
    /\ ev.network = "base-mainnet"
    /\ ev.native.error
    /\ ~ev.tokens[1].json
    /\ ev.tokens[2].result = "0xde0b6b3a7640000"
    /\ ui.balances = <<[thrown |-> FALSE, symbol |-> "DAI", balance |-> "1.000000"],
                       [thrown |-> FALSE, symbol |-> "ETH", balance |-> "0"]>>
    /\ ~ui.loading

\* C24: onSuccess (each call adds one to balanceRefreshKey) is called exactly
\* once for each send that reached success with a hash: it has never been
\* called more often than sends have succeeded, and right after a call it has
\* been called exactly as often.
C24_OnSuccessOncePerSend ==
    /\ ui.balanceRefreshKey <= Cardinality(ui.sent)
    /\ ev.op \in {"SuccessEffect", "TimerFired"} =>
           ui.balanceRefreshKey = Cardinality(ui.sent)

\* C25: a modal that is reopened after it was closed shows the empty input
\* form, whatever was in flight or completed before or during the close:
\* recipient and amount empty, no error, not validated, no prepared
\* transaction, no success screen.
C25_ReopenedModalIsEmpty ==
    (ev.op = "OpenSendModal" /\ ui.closedBy # NULL) =>
        /\ ui.recipient = ""
        /\ ui.amount = ""
        /\ ui.formError = NULL
        /\ ~ui.validated
        /\ ui.transaction = NoTransaction
        /\ ui.status # "success"

\* C26: the sign control is offered only while validated is true and a
\* prepared transaction exists, and then the transaction encodes exactly the
\* recipient and the amount in the form; a failed input check, a failed
\* validation and a transaction error leave validated false, the last with
\* no transaction.
C26_SignedTransactionMatchesForm ==
    /\ SignControlOffered =>
           /\ ui.validated
           /\ ui.transaction # NoTransaction
           /\ ui.transaction.to = ui.recipient
           /\ ui.transaction.amount = ui.amount
    /\ (ui.variant = "signButton" /\ ev.op = "handleValidate" /\ ev.rejected) =>
           ~ui.validated
    /\ (ev.op = "ValidationSettled" /\ ~ev.passed) => ~ui.validated
    /\ (ev.op = "TransactionSettled" /\ ~ev.ok) =>
           ~ui.validated /\ ui.transaction = NoTransaction

\* C30 (as stated): no method calls the CDP client unless initializeCDP
\* created it outside a browser; in a browser the client stays null and every
\* server-only method fails; outside a browser each of them fails with
\* 'CDP SDK not initialized' while the client is null.
C30_NotInitializedMessage ==
    /\ ui.isBrowser => \A s \in CdpServices : ~ui.cdpClient[s]
    /\ ev.op = "CdpMethod" =>
           /\ ev.calledClient => ~ui.isBrowser /\ ui.created[ev.service]
           /\ ui.isBrowser => ev.thrown
           /\ (~ui.isBrowser /\ ~ev.hadClient) =>
                  ev.thrown /\ ev.message = "CDP SDK not initialized"

\* C30 (amended): as above, with the message of each service: 'CDP SDK not
\* initialized' in SmartAccountService and 'CDP SDK not initialized. Call
\* initializeCDP() first' in DepositService.
C30_ClientOnlyAfterInitialize ==
    /\ ui.isBrowser => \A s \in CdpServices : ~ui.cdpClient[s]
    /\ ev.op = "CdpMethod" =>
           /\ ev.calledClient => ~ui.isBrowser /\ ui.created[ev.service]
           /\ ui.isBrowser => ev.thrown /\ ~ev.calledClient
           /\ (~ui.isBrowser /\ ~ev.hadClient) =>
                  /\ ev.thrown
                  /\ ~ev.calledClient
                  /\ ev.service = "SmartAccountService" =>
                         ev.message = "CDP SDK not initialized"
                  /\ ev.service = "DepositService" =>
                         ev.message = "CDP SDK not initialized. Call initializeCDP() first"

C30_Witness ==
    /\ ~ui.isBrowser
    /\ ui.cdpClient["SmartAccountService"]
    /\ ~ui.cdpClient["DepositService"]
    /\ ui.clientCalls = 1
    /\ ev.op = "CdpMethod"
    /\ ev.name = "exportEvmAccount"
    /\ ev.thrown
    /\ ~ev.calledClient
    /\ ev.message = "CDP SDK not initialized. Call initializeCDP() first"

====
